---- MODULE Spec2Model ----
(***************************************************************************)
(* State-machine model of the control-conditioning encoder of              *)
(* cosmos_transfer1/diffusion/training/networks/                           *)
(* general_dit_ctrl_enc_multicamera.py: construction of                    *)
(* GeneralDITMulticamEncoder, and one forward call of it (or of its        *)
(* subclass VideoExtendGeneralDITMulticamEncoder) taken step by step.      *)
(*                                                                         *)
(* Tensors are modelled by their contents over the axes the code acts on:  *)
(* a token tensor is a sequence over the flattened (T, H, W) positions of  *)
(* a sequence over the batch; the feature axis D is one integer.           *)
(***************************************************************************)
EXTENDS Integers, Sequences, FiniteSets, TLC

\* ------------------------------------------------------------- bounds
MaxBlocks == 3
MaxSources == 2
MaxFrames == 2

\* ---------------------------------------------------- program constants
\* weight_map.shape[2] == 8 * (T - 1) + 1 and range(1, shape[2], 8)
TemporalStride == 8
\* kwargs.pop("hint_channels", 16)
DefaultHintChannels == 16
\* kwargs.pop("dropout_ctrl_branch", 0.5), in percent
DropoutCtrlBranch == 50

\* ------------------------------------------------------- value universe
None == [kind |-> "None"]
IsNone(v) == v.kind = "None"

Batch == {1, 2}
B == Cardinality(Batch)
\* H*W positions of one frame of the token grid
Spatial == {1, 2}
HW == Cardinality(Spatial)
\* tensor-model-parallel workers of sequence-parallel execution
Ranks == {0, 1}
TP == Cardinality(Ranks)

\* ------------------------------------------------------ tensor algebra
RECURSIVE SeqSum(_)
SeqSum(s) == IF Len(s) = 0 THEN 0 ELSE Head(s) + SeqSum(Tail(s))

\* elementwise a + b of two token tensors of the same shape
TAdd(a, b) == [p \in DOMAIN a |-> [k \in DOMAIN a[p] |-> a[p][k] + b[p][k]]]
\* a * s for a python scalar s
TScale(a, s) == [p \in DOMAIN a |-> [k \in DOMAIN a[p] |-> a[p][k] * s]]
\* a + s for a scalar s
TShift(a, s) == [p \in DOMAIN a |-> [k \in DOMAIN a[p] |-> a[p][k] + s]]
\* a * w with w of shape [positions,1,1,B,1]
TMulMap(a, w) == [p \in DOMAIN a |-> [k \in DOMAIN a[p] |-> a[p][k] * w[p][k]]]
TZero(a) == \A p \in 1..Len(a) : \A k \in 1..Len(a[p]) : a[p][k] = 0

\* Shapes are <<d0, d1, d2, d3>>, the feature axis left out; a tensor of that
\* shape is held as a sequence over its d0*d1*d2 leading positions (row-major)
\* of sequences over d3.
Positions(sh) == sh[1] * sh[2] * sh[3]

\* torch broadcasting: two shapes combine when each axis agrees or is 1
Broadcastable(sa, sb) == \A k \in 1..4 : sa[k] = sb[k] \/ sa[k] = 1 \/ sb[k] = 1
BroadcastShape(sa, sb) == [k \in 1..4 |-> IF sa[k] > sb[k] THEN sa[k] ELSE sb[k]]

\* the 0-based index <<i0, i1, i2, i3>> of entry k of leading position p
IndexOf(sh, p, k) ==
    <<(p - 1) \div (sh[2] * sh[3]), ((p - 1) \div sh[3]) % sh[2], (p - 1) % sh[3], k - 1>>

\* the entry of a (of shape sa) that broadcasting reads at index ix
Elem(a, sa, ix) ==
    LET j == [k \in 1..4 |-> IF sa[k] = 1 THEN 0 ELSE ix[k]]
    IN a[(j[1] * sa[2] + j[2]) * sa[3] + j[3] + 1][j[4] + 1]

\* a expanded to the shape sh
BroadcastTo(a, sa, sh) ==
    [p \in 1..Positions(sh) |-> [k \in 1..sh[4] |-> Elem(a, sa, IndexOf(sh, p, k))]]

\* a + b with broadcasting
BAdd(a, sa, b, sb) ==
    LET sh == BroadcastShape(sa, sb)
    IN [p \in 1..Positions(sh) |->
           [k \in 1..sh[4] |-> Elem(a, sa, IndexOf(sh, p, k)) + Elem(b, sb, IndexOf(sh, p, k))]]

\* scatter_along_first_dim: the rank's contiguous slice of the leading axis
Scatter(t, rank) ==
    LET n == Len(t) \div TP IN SubSeq(t, rank * n + 1, (rank + 1) * n)

\* torch.chunk(t, n, dim=batch)[i]: the i-th of n equal pieces of the batch
Chunk(t, n, i) ==
    LET w == Len(t[1]) \div n
    IN [p \in 1..Len(t) |-> SubSeq(t[p], (i - 1) * w + 1, i * w)]

\* ------------------------------------------------ construction (__init__)
\* kwargs["layer_mask"] = [False] * num_control_blocks + [True] * (num_blocks - n);
\* without num_control_blocks the mask is the caller's layer_mask, or
\* [False] * num_blocks when that is None
LayerMaskOf(num_blocks, ncb, mask) ==
    IF ~IsNone(ncb) THEN [i \in 1..num_blocks |-> i > ncb.v]
    ELSE IF IsNone(mask) THEN [i \in 1..num_blocks |-> FALSE]
    ELSE mask.v

\* assert num_control_blocks > 0 and num_control_blocks <= kwargs["num_blocks"]
ConstructorAccepts(num_blocks, ncb) ==
    IsNone(ncb) \/ (ncb.v > 0 /\ ncb.v <= num_blocks)

\* the names f"block{idx}" given a ZeroBlock: every idx whose mask entry is False
ZeroBlockNames(mask) == {idx \in 0..(Len(mask) - 1) : ~mask[idx + 1]}

\* the backbone's self.blocks: one block per unmasked index, in index order
RECURSIVE BlockNames(_, _)
BlockNames(mask, idx) ==
    IF idx >= Len(mask) THEN <<>>
    ELSE (IF mask[idx + 1] THEN <<>> ELSE <<idx>>) \o BlockNames(mask, idx + 1)

\* list.index(True): the 0-based index of the first True entry, None if there is
\* none (python raises ValueError)
IndexOfTrue(mask) ==
    IF \E i \in 1..Len(mask) : mask[i]
    THEN [kind |-> "int",
          v |-> (CHOOSE i \in 1..Len(mask) :
                    mask[i] /\ \A k \in 1..(i - 1) : ~mask[k]) - 1]
    ELSE None

\* ------------------------------------------------- learned parameters
\* zero_module(nn.Linear(model_channels, model_channels)) of encoder e, block idx:
\* weight and bias are zero until training moves them
ZeroBlockParams(trained, e, idx) ==
    IF trained THEN [w |-> idx + 1, b |-> e + 1] ELSE [w |-> 0, b |-> 0]

\* zero_blocks[name](x)
ZeroBlock(zp, x) == TShift(TScale(x, zp.w), zp.b)

\* zero_module(nn.Linear(hint_nf[-1], model_channels)) closing input_hint_block
FinalHintParams(trained, e) ==
    IF trained THEN [w |-> 1, b |-> e + 1] ELSE [w |-> 0, b |-> 0]

\* input_hint_block(hint): the Linear/SiLU cascade, then the zero-initialised layer
InputHintBlock(trained, e, h) ==
    LET fp == FinalHintParams(trained, e)
    IN TShift(TScale(TShift(h, 1), fp.w), fp.b)

\* ------------------------------------------- collaborators of the backbone
\* parameters of a module owned by encoder e (0: the instance itself,
\* i >= 1: hint_encoders[i - 1]); independent parameter sets differ
ModuleParam(e) == e + 1

\* str.lower() on one character
UpperLetters == "ABCDEFGHIJKLMNOPQRSTUVWXYZ"
LowerLetters == "abcdefghijklmnopqrstuvwxyz"
LowerChar(ch) ==
    IF \E n \in 1..26 : SubSeq(UpperLetters, n, n) = ch
    THEN LET n == CHOOSE n \in 1..26 : SubSeq(UpperLetters, n, n) = ch
         IN SubSeq(LowerLetters, n, n)
    ELSE ch

\* str.lower()
RECURSIVE Lower(_)
Lower(str) ==
    IF Len(str) = 0 THEN ""
    ELSE LowerChar(SubSeq(str, 1, 1)) \o Lower(SubSeq(str, 2, Len(str)))

\* sub in str
Contains(sub, str) ==
    \E n \in 0..(Len(str) - Len(sub)) : SubSeq(str, n + 1, n + Len(sub)) = sub

\* "rope" in self.pos_emb_cls.lower()
IsRope(pos_emb_cls) == Contains("rope", Lower(pos_emb_cls))

\* prepare_hint_embedded_sequence: the padding mask concatenated as a channel
\* when concat_padding_mask, x_embedder2, and the positional embedding added to
\* the tokens unless it is rotary (it is then returned aside, and encode_hint
\* drops it)
PrepareHintEmbeddedSequence(c, x_embedder2, pos_embedder, h, pm) ==
    LET hc == IF c.concat_padding_mask THEN TShift(h, pm.v) ELSE h
        tok == TShift(hc, ModuleParam(x_embedder2))
    IN IF IsRope(c.pos_emb_cls) THEN tok
       ELSE TShift(tok, 2 * ModuleParam(pos_embedder))

\* prepare_embedded_sequence: tokens from self.x_embedder, rotary embedding from
\* self.pos_embedder, extra positional embedding from self.extra_pos_embedder
PrepareEmbeddedSequence(fields, x) ==
    [tokens |-> TShift(x.v, ModuleParam(fields.x_embedder)),
     rope   |-> 3 * ModuleParam(fields.pos_embedder),
     extra  |-> [p \in 1..Len(x.v) |->
                    [k \in 1..Len(x.v[p]) |-> p + 5 * ModuleParam(fields.extra_pos_embedder)]]]

\* blocks[name](x, affline_emb, crossattn_emb, crossattn_mask, rope, adaln, extra)
Block(e, idx, x, rope, extra) ==
    TShift(TAdd(x, extra), rope + idx + 7 * ModuleParam(e))

\* base_model.net.forward(**a): the backbone's own result on x, and the x_ctrl
\* entries it adds at their block boundaries; an absent x_ctrl and a zero entry
\* add nothing
BackboneForward(a) ==
    LET names == IF "x_ctrl" \in DOMAIN a THEN DOMAIN a.x_ctrl ELSE {}
    IN [kind |-> "backbone_output",
        base |-> TShift(a.x.v, a.x.C),
        added |-> {<<n, a.x_ctrl[n]>> : n \in {m \in names : ~TZero(a.x_ctrl[m])}}]

\* ------------------------------------------------- weight map resampling
\* torch.nn.functional.interpolate(win, size=(1, H, W), mode="trilinear",
\* align_corners=False) along time: the sample at n/2 - 1/2 of the n frames
Interpolate1(win) ==
    LET n == Len(win)
    IN IF n % 2 = 0 THEN (win[n \div 2] + win[n \div 2 + 1]) \div 2
       ELSE win[(n + 1) \div 2]

\* number of wi in range(1, Tw, 8)
NumWindows(Tw) == IF Tw <= 1 THEN 0 ELSE (Tw - 1 + TemporalStride - 1) \div TemporalStride

\* windows taken from range(0, Tw, 8)
WindowBoundsFromZero(k, Tw) ==
    IF k = 1 THEN <<1, 1>>
    ELSE LET wi == TemporalStride * (k - 2)
         IN <<wi + 1, IF wi + TemporalStride < Tw THEN wi + TemporalStride ELSE Tw>>

\* input frames (1-based, inclusive) read for output frame k (1-based):
\* weight_map[:, :, :1] for the first, weight_map[:, :, wi : wi + 8] afterwards
WindowBounds(k, Tw) ==
    IF k = 1 THEN <<1, 1>>
    ELSE LET wi == 1 + TemporalStride * (k - 2)
         IN <<wi + 1, IF wi + TemporalStride < Tw THEN wi + TemporalStride ELSE Tw>>

\* weight_map.shape[2:5] != (T, H, W)
NeedsResample(wm, T, S) == <<wm.T, wm.S>> # <<T, S>>

\* assert weight_map.shape[2] == 8 * (T - 1) + 1
ResampleAccepts(wm, T) == wm.T = TemporalStride * (T - 1) + 1

\* torch.cat(weight_map_i, dim=2): one frame per window at the target resolution
ResampleWeightMap(wm, T, S) ==
    LET n == 1 + NumWindows(wm.T)
    IN [T |-> n, S |-> S,
        frames |-> [k \in 1..n |->
            Interpolate1(SubSeq(wm.frames, WindowBounds(k, wm.T)[1], WindowBounds(k, wm.T)[2]))]]

\* permute(2, 3, 4, 0, 1).view(T * H * W, 1, 1, B, 1)
FlattenWeightMap(wm) ==
    [p \in 1..(wm.T * wm.S) |-> [k \in 1..B |-> wm.frames[(p - 1) \div wm.S + 1]]]

\* -------------------------------------------------------------- gating
\* torch.rand(B) > self.dropout_ctrl_branch, as 0/1
CoinFlip(u, dropout) == [k \in 1..Len(u) |-> IF u[k] > dropout THEN 1 ELSE 0]

\* gates that also open the block of index num_layers_to_use
ControlGatePerLayerInclusive(num_layers_to_use, num_control_blocks) ==
    [i \in 1..num_control_blocks |-> (i - 1) <= num_layers_to_use]

\* [i < num_layers_to_use for i in range(num_control_blocks)]
ControlGatePerLayer(num_layers_to_use, num_control_blocks) ==
    [i \in 1..num_control_blocks |-> (i - 1) < num_layers_to_use]

\* a python bool used as a factor
BoolFactor(g) == IF g THEN 1 ELSE 0

\* ================================================================ state
VARIABLES
    pc,                 \* position of the instance / of the running forward call
    cfg,                \* constructor arguments and attached collaborators
    layer_mask,         \* self.layer_mask
    zero_blocks,        \* names of self.zero_blocks
    trained,            \* whether training has moved the zero-initialised layers
    fields,             \* self.input_hint_block, pos_embedder, x_embedder2,
                        \* x_embedder, extra_pos_embedder: the owning encoder
    grad_enabled,       \* torch.is_grad_enabled()
    args,               \* arguments of the caller's forward(...)
    fargs,              \* arguments received by GeneralDITMulticamEncoder.forward
    kwargs,             \* **kwargs of GeneralDITMulticamEncoder.forward
    hint,               \* kwargs.pop(hint_key)
    guided_hints,       \* list of encoded hints, one per control source
    x,                  \* local x of forward
    cvim,               \* local condition_video_input_mask
    crossattn,          \* local crossattn_emb / crossattn_mask
    coin_flip,          \* per-sample gate
    num_layers_to_use,  \* resolved number of live control layers
    control_gate_per_layer,
    control_weight,     \* list of per-source weights
    i,                  \* index of the control source being processed
    idx,                \* index of the next control block of that source
    hidden,             \* x inside the block loop
    guided_hint,        \* the source's hint still to be added, or None
    emb,                \* rope and extra positional embedding of the source
    outs,               \* block name -> accumulated contribution
    backbone_calls,     \* argument records of base_model.net.forward calls
    retval,             \* value returned by forward
    err,                \* exception raised by the constructor / the call
    draws,              \* random values drawn so far in the call
    hint_vals,          \* <<source, block>> -> hint_val computed for it
    feats,              \* <<source, block>> -> hidden state given to its ZeroBlock
    resampled           \* last weight map handled by the resampling branch

inst == <<cfg, layer_mask, zero_blocks, trained>>
call == <<grad_enabled, args>>
entry == <<fargs, kwargs, hint>>
prep == <<x, cvim, crossattn, coin_flip, num_layers_to_use, control_gate_per_layer,
          control_weight, draws>>
loop == <<i, idx, hidden, guided_hint, emb, outs, hint_vals, feats, resampled>>
fin == <<backbone_calls, retval>>
vars == <<pc, inst, fields, call, entry, guided_hints, prep, loop, fin, err>>

\* ------------------------------------------------------------- inputs
BaseClass == "GeneralDITMulticamEncoder"
ExtendClass == "VideoExtendGeneralDITMulticamEncoder"

IntVal(v) == [kind |-> "int", v |-> v]
Opaque(name) == [kind |-> "tensor", id |-> name]

DefaultCfg(nb, ncb) ==
    [cls |-> BaseClass, num_blocks |-> nb, ncb |-> ncb, in_channels |-> 17,
     hint_channels |-> DefaultHintChannels, dropout_ctrl_branch |-> DropoutCtrlBranch,
     random_drop_control_blocks |-> FALSE, hint_encoders |-> FALSE,
     x_format |-> "THWBD", sequence_parallel |-> FALSE, rank |-> 0,
     cp_group |-> FALSE, use_cross_attn_mask |-> FALSE,
     layer_mask |-> None, is_extend_model |-> FALSE, pos_emb_cls |-> "sincos",
     concat_padding_mask |-> FALSE, block_config |-> "FA-CA-MLP"]

\* token layout, sequence-parallel rank, context-parallel group, mask use
Layouts ==
    {[x_format |-> "THWBD", sequence_parallel |-> FALSE, rank |-> 0, cp_group |-> FALSE, use_cross_attn_mask |-> FALSE],
     [x_format |-> "THWBD", sequence_parallel |-> TRUE, rank |-> 0, cp_group |-> FALSE, use_cross_attn_mask |-> FALSE],
     [x_format |-> "THWBD", sequence_parallel |-> TRUE, rank |-> 1, cp_group |-> FALSE, use_cross_attn_mask |-> FALSE],
     [x_format |-> "BTHWD", sequence_parallel |-> FALSE, rank |-> 0, cp_group |-> FALSE, use_cross_attn_mask |-> FALSE],
     [x_format |-> "BTHWD", sequence_parallel |-> TRUE, rank |-> 0, cp_group |-> FALSE, use_cross_attn_mask |-> FALSE],
     [x_format |-> "BDTHW", sequence_parallel |-> FALSE, rank |-> 0, cp_group |-> FALSE, use_cross_attn_mask |-> FALSE],
     [x_format |-> "THWBD", sequence_parallel |-> FALSE, rank |-> 0, cp_group |-> TRUE, use_cross_attn_mask |-> FALSE],
     [x_format |-> "THWBD", sequence_parallel |-> FALSE, rank |-> 0, cp_group |-> FALSE, use_cross_attn_mask |-> TRUE]}

\* every num_control_blocks argument around the accepted range, default features
ConstructionSweep ==
    {DefaultCfg(nb, ncb) : nb \in 1..MaxBlocks,
                           ncb \in {None} \cup {IntVal(n) : n \in 0..(MaxBlocks + 1)}}

\* every feature combination on the largest instance with a pass-through block
FeatureSweep ==
    {[DefaultCfg(MaxBlocks, IntVal(MaxBlocks - 1)) EXCEPT
         !.cls = c, !.random_drop_control_blocks = rd, !.hint_encoders = he,
         !.x_format = l.x_format, !.sequence_parallel = l.sequence_parallel,
         !.rank = l.rank, !.cp_group = l.cp_group,
         !.use_cross_attn_mask = l.use_cross_attn_mask] :
        c \in {BaseClass, ExtendClass}, rd \in BOOLEAN, he \in BOOLEAN, l \in Layouts}

\* an explicit layer_mask argument, without num_control_blocks and under it
MaskSweep ==
    {[DefaultCfg(MaxBlocks, None) EXCEPT !.layer_mask = [kind |-> "list", v |-> m]] :
        m \in [1..MaxBlocks -> BOOLEAN]}
    \cup {[DefaultCfg(MaxBlocks, IntVal(1)) EXCEPT
              !.layer_mask = [kind |-> "list", v |-> [k \in 1..MaxBlocks |-> TRUE]]]}

\* the constructor options of the hint embedding, of the input channels and of
\* the block configuration
OptionSweep ==
    {[DefaultCfg(MaxBlocks, IntVal(MaxBlocks - 1)) EXCEPT
         !.pos_emb_cls = pe, !.concat_padding_mask = cpm, !.hint_encoders = he] :
        pe \in {"sincos", "sincos_fps_aware", "rope3d"}, cpm \in BOOLEAN, he \in BOOLEAN}
    \cup {[DefaultCfg(MaxBlocks, IntVal(MaxBlocks - 1)) EXCEPT !.pos_emb_cls = pe] :
              pe \in {"rope", "RoPE3D"}}
    \cup {[DefaultCfg(MaxBlocks, IntVal(MaxBlocks - 1)) EXCEPT
              !.is_extend_model = TRUE, !.in_channels = ic] : ic \in {16, 17}}
    \cup {[DefaultCfg(MaxBlocks, IntVal(MaxBlocks - 1)) EXCEPT
              !.block_config = "FA-MLP", !.sequence_parallel = sp] : sp \in BOOLEAN}

Configs == ConstructionSweep \cup FeatureSweep \cup MaskSweep \cup OptionSweep

\* contents of the caller's tensors: distinct values per position and sample
XData(T) == [p \in 1..(T * HW) |-> [k \in 1..B |-> p + 2 * k]]
HintData(n, T) == [p \in 1..(T * HW) |-> [k \in 1..(n * B) |-> 10 * ((k - 1) \div B + 1) + p + k]]
\* a weight map [B, 1, Tw, H, W], constant over space and batch, even values
WeightFrames(Tw, seed) == [f \in 1..Tw |-> 2 * ((f * seed) % 5)]

DefaultInput ==
    [hint_n |-> 1, hint_ch |-> 8, grad |-> FALSE, base_trainable |-> FALSE,
     nlu |-> -1, cw |-> [form |-> "float"], data_type |-> "VIDEO", T |-> 1,
     mask |-> TRUE, pose |-> "None", scalar_feature |-> FALSE, crossattn_mask |-> FALSE,
     latent |-> TRUE]

\* calls that vary the hint, the training mode and the scalar weight forms
FlowInputs ==
    {[DefaultInput EXCEPT !.hint_n = n, !.grad = g, !.base_trainable = bt,
                          !.nlu = k, !.cw = [form |-> w]] :
        n \in 0..MaxSources, g \in BOOLEAN, bt \in BOOLEAN,
        k \in {-1, 1, MaxBlocks}, w \in {"float", "tensor0", "list"}}

\* calls with one spatio-temporal weight map per source
MapInputs ==
    {[DefaultInput EXCEPT !.hint_n = n, !.T = T,
                          !.cw = [form |-> "map", T |-> Tw, S |-> S, seed |-> 1 + (Tw % 2)]] :
        n \in 1..MaxSources, T \in 1..MaxFrames,
        Tw \in {1, 2, MaxFrames, 9, 10, TemporalStride * (MaxFrames - 1) + 1},
        S \in {HW, 2 * HW}}

\* calls that vary the data type, the condition inputs and the rejected inputs
ShapeInputs ==
    {[DefaultInput EXCEPT !.hint_n = n, !.data_type = d, !.mask = m, !.pose = ps] :
        n \in 0..1, d \in {"VIDEO", "IMAGE", "MIX"}, m \in BOOLEAN,
        ps \in {"None", "T", "long"}}
    \cup {[DefaultInput EXCEPT !.scalar_feature = TRUE],
          [DefaultInput EXCEPT !.crossattn_mask = TRUE],
          [DefaultInput EXCEPT !.latent = FALSE],
          [DefaultInput EXCEPT !.latent = FALSE, !.hint_n = 0],
          [DefaultInput EXCEPT !.hint_ch = DefaultHintChannels],
          [DefaultInput EXCEPT !.hint_ch = DefaultHintChannels + 1]}

\* Inputs whose tensor shapes the model represents: with the BTHWD layout
\* torch.chunk(dim=3) cuts the width axis, and without sequence parallelism a
\* one-frame weight map broadcasts into an outer product; both are left out.
Representable(c, in) ==
    /\ (c.x_format = "BTHWD" /\ ~c.hint_encoders) => in.hint_n <= 1
    /\ (in.cw.form = "map" /\ ~c.sequence_parallel) => in.T >= 2
    /\ in.pose # "None" => c.cls = ExtendClass

CallInputs(c) == {in \in FlowInputs \cup MapInputs \cup ShapeInputs : Representable(c, in)}

ControlWeightArg(in) ==
    CASE in.cw.form = "float"   -> [kind |-> "float", v |-> 2]
      [] in.cw.form = "tensor0" -> [kind |-> "tensor", ndim |-> 0, v |-> 3]
      [] in.cw.form = "list"    -> [kind |-> "tensor", ndim |-> 1,
                                    v |-> [s \in 1..in.hint_n |-> s + 1]]
      [] in.cw.form = "map"     -> [kind |-> "tensor", ndim |-> 6,
                                    v |-> [s \in 1..in.hint_n |->
                                            [T |-> in.cw.T, S |-> in.cw.S,
                                             frames |-> WeightFrames(in.cw.T, in.cw.seed + s - 1)]]]

HintArg(c, in) ==
    IF in.hint_n = 0 THEN None
    ELSE [kind |-> "tensor", n |-> in.hint_n, ch |-> in.hint_ch,
          v |-> HintData(in.hint_n, in.T)]

\* the keyword arguments of the caller's forward(...)
MakeArgs(c, in) ==
    [kind |-> "arguments",
     x |-> [kind |-> "tensor", C |-> 16, T |-> in.T, v |-> XData(in.T)],
     timesteps |-> Opaque("timesteps"),
     crossattn_emb |-> [kind |-> "tensor", id |-> "crossattn_emb", layout |-> "B M D"],
     crossattn_mask |-> IF in.crossattn_mask
                        THEN [kind |-> "tensor", id |-> "crossattn_mask", layout |-> "B M"]
                        ELSE None,
     fps |-> Opaque("fps"),
     image_size |-> Opaque("image_size"),
     padding_mask |-> [kind |-> "tensor", id |-> "padding_mask", v |-> 3],
     scalar_feature |-> IF in.scalar_feature THEN Opaque("scalar_feature") ELSE None,
     data_type |-> in.data_type,
     hint_key |-> "hint",
     base_model |-> [kind |-> "module", trainable |-> in.base_trainable],
     control_weight |-> ControlWeightArg(in),
     num_layers_to_use |-> in.nlu,
     condition_video_input_mask |->
        IF in.mask
        THEN [kind |-> "tensor", T |-> IF c.cp_group THEN TP * in.T ELSE in.T, v |-> 1]
        ELSE None,
     condition_video_pose |->
        CASE in.pose = "None" -> None
          [] in.pose = "T"    -> [kind |-> "tensor", T |-> in.T, v |-> 2]
          [] in.pose = "long" -> [kind |-> "tensor", T |-> in.T + 1, v |-> 2],
     condition_video_augment_sigma |-> Opaque("condition_video_augment_sigma"),
     latent_condition |-> IF in.latent THEN Opaque("latent_condition") ELSE None,
     latent_condition_sigma |-> IF in.latent THEN Opaque("latent_condition_sigma") ELSE None,
     view_indices_B_T |-> Opaque("view_indices_B_T"),
     kwargs |-> ("hint" :> HintArg(c, in)) @@ ("frame_repeat" :> Opaque("frame_repeat"))]

\* ================================================================ actions
NoFields == [input_hint_block |-> 0, pos_embedder |-> 0, x_embedder2 |-> 0,
             x_embedder |-> 0, extra_pos_embedder |-> 0]
NoDraws == [coin |-> 0, layer |-> 0, u |-> <<>>]

Init ==
    /\ pc = "new"
    /\ cfg \in Configs
    /\ layer_mask = <<>>
    /\ zero_blocks = {}
    /\ trained = FALSE
    /\ fields = NoFields
    /\ grad_enabled = FALSE
    /\ args = None
    /\ fargs = None
    /\ kwargs = None
    /\ hint = None
    /\ guided_hints = <<>>
    /\ x = None
    /\ cvim = None
    /\ crossattn = None
    /\ coin_flip = <<>>
    /\ num_layers_to_use = None
    /\ control_gate_per_layer = <<>>
    /\ control_weight = <<>>
    /\ i = 0
    /\ idx = 0
    /\ hidden = None
    /\ guided_hint = None
    /\ emb = None
    /\ outs = <<>>
    /\ backbone_calls = <<>>
    /\ retval = None
    /\ err = "none"
    /\ draws = NoDraws
    /\ hint_vals = <<>>
    /\ feats = <<>>
    /\ resampled = None

\* raise: the call (or the construction) ends with exception e
Raise(e) == pc' = "failed" /\ err' = e

\* GeneralDITMulticamEncoder.__init__
Construct ==
    /\ pc = "new"
    /\ IF ConstructorAccepts(cfg.num_blocks, cfg.ncb)
       THEN /\ layer_mask' = LayerMaskOf(cfg.num_blocks, cfg.ncb, cfg.layer_mask)
            /\ zero_blocks' = ZeroBlockNames(layer_mask')
            /\ pc' = "idle"
            /\ err' = err
       ELSE /\ pc' = "rejected"
            /\ err' = "AssertionError"
            /\ UNCHANGED <<layer_mask, zero_blocks>>
    /\ UNCHANGED <<cfg, trained, fields, call, entry, guided_hints, prep, loop, fin>>

\* optimizer steps of the training harness move the zero-initialised layers
Train ==
    /\ pc = "idle"
    /\ ~trained
    /\ trained' = TRUE
    /\ UNCHANGED <<pc, cfg, layer_mask, zero_blocks, fields, call, entry,
                   guided_hints, prep, loop, fin, err>>

\* the PatchEmbed a call of build_hint_patch_embed() creates: a new object,
\* none of the instance's or the hint encoders' modules
RebuiltEmbedder == MaxSources + 1

\* build_hint_patch_embed() called on the constructed instance: self.x_embedder2
\* is bound to a new PatchEmbed (modelled once per instance)
BuildHintPatchEmbed ==
    /\ pc = "idle"
    /\ fields.x_embedder2 # RebuiltEmbedder
    /\ fields' = [fields EXCEPT !.x_embedder2 = RebuiltEmbedder]
    /\ UNCHANGED <<pc, inst, call, entry, guided_hints, prep, loop, fin, err>>

\* a caller invokes forward(...) of the instance
Call ==
    /\ pc = "idle"
    /\ \E in \in CallInputs(cfg) :
          /\ args' = MakeArgs(cfg, in)
          /\ grad_enabled' = in.grad
    /\ pc' = IF cfg.cls = ExtendClass THEN "extend_forward" ELSE "forward"
    /\ fargs' = IF cfg.cls = ExtendClass THEN None ELSE args'
    /\ UNCHANGED <<inst, fields, kwargs, hint, guided_hints, prep, loop, fin, err>>

\* torch.cat([x, t], dim=1): one more channel, mixed into the tokens by the
\* patch embedding
CatChannel(xt, t) == [xt EXCEPT !.C = @ + 1, !.v = TShift(@, t.v)]

\* rearrange / split_inputs_cp(seq_dim=3) / rearrange: the rank's share of frames
SplitInputsCp(m) == [m EXCEPT !.T = @ \div TP]

\* condition_video_pose[:, :, :T] when it has more frames than x
TruncatePose(ps, T) == IF ps.T > T THEN [ps EXCEPT !.T = T] ELSE ps

\* VideoExtendGeneralDITMulticamEncoder.forward: x after the VIDEO concatenation
ExtendX(c, a) ==
    IF a.data_type = "VIDEO"
    THEN LET m == IF c.cp_group THEN SplitInputsCp(a.condition_video_input_mask)
                  ELSE a.condition_video_input_mask
             xm == CatChannel(a.x, m)
         IN IF IsNone(a.condition_video_pose) THEN xm
            ELSE CatChannel(xm, TruncatePose(a.condition_video_pose, a.x.T))
    ELSE a.x

\* the arguments of super().forward(...) in VideoExtendGeneralDITMulticamEncoder:
\* condition_video_input_mask is not passed on; latent_condition and
\* latent_condition_sigma, no parameters of this forward, travel in **kwargs
ExtendSuperArgs(c, a) ==
    [a EXCEPT !.x = ExtendX(c, a),
              !.condition_video_input_mask = None,
              !.kwargs = @ @@ ("condition_video_augment_sigma" :> a.condition_video_augment_sigma)]

\* VideoExtendGeneralDITMulticamEncoder.forward
ExtendForward ==
    /\ pc = "extend_forward"
    /\ IF args.data_type = "VIDEO" /\ IsNone(args.condition_video_input_mask)
       THEN /\ Raise("AssertionError")
            /\ UNCHANGED fargs
       ELSE /\ fargs' = ExtendSuperArgs(cfg, args)
            /\ pc' = "forward"
            /\ err' = err
    /\ UNCHANGED <<inst, fields, call, kwargs, hint, guided_hints, prep, loop, fin>>

\* kwargs.pop(key): the remaining keyword arguments
Pop(kw, key) == [k \in DOMAIN kw \ {key} |-> kw[k]]

\* the bypass call were the hint left among the keyword arguments
BypassArgsKeepingHint(f, kw) ==
    [x |-> f.x,
     timesteps |-> f.timesteps,
     crossattn_emb |-> f.crossattn_emb,
     crossattn_mask |-> f.crossattn_mask,
     fps |-> f.fps,
     image_size |-> f.image_size,
     padding_mask |-> f.padding_mask,
     scalar_feature |-> f.scalar_feature,
     data_type |-> f.data_type,
     condition_video_input_mask |-> f.condition_video_input_mask,
     latent_condition |-> f.latent_condition,
     latent_condition_sigma |-> f.latent_condition_sigma,
     view_indices_B_T |-> f.view_indices_B_T] @@ f.kwargs

\* the keyword arguments of base_model.net.forward(...) on the bypass path
BypassArgs(f, kw) ==
    [x |-> f.x,
     timesteps |-> f.timesteps,
     crossattn_emb |-> f.crossattn_emb,
     crossattn_mask |-> f.crossattn_mask,
     fps |-> f.fps,
     image_size |-> f.image_size,
     padding_mask |-> f.padding_mask,
     scalar_feature |-> f.scalar_feature,
     data_type |-> f.data_type,
     condition_video_input_mask |-> f.condition_video_input_mask,
     latent_condition |-> f.latent_condition,
     latent_condition_sigma |-> f.latent_condition_sigma,
     view_indices_B_T |-> f.view_indices_B_T] @@ kw

\* the closing call were it given the locals x and condition_video_input_mask
DelegateArgsFromLocals(f, kw, lx, lca, lm, o) ==
    [x |-> lx,
     timesteps |-> f.timesteps,
     crossattn_emb |-> f.crossattn_emb,
     crossattn_mask |-> f.crossattn_mask,
     fps |-> f.fps,
     image_size |-> f.image_size,
     padding_mask |-> f.padding_mask,
     scalar_feature |-> f.scalar_feature,
     data_type |-> f.data_type,
     x_ctrl |-> o,
     condition_video_input_mask |-> lm,
     latent_condition |-> f.latent_condition,
     latent_condition_sigma |-> f.latent_condition_sigma,
     view_indices_B_T |-> f.view_indices_B_T] @@ kw

\* the keyword arguments of base_model.net.forward(...) after the control pass:
\* the recorded inputs x_input, crossattn_emb_input, crossattn_mask_input,
\* condition_video_input_mask_input, not the locals lx, lca, lm that replaced them
DelegateArgs(f, kw, lx, lca, lm, o) ==
    [x |-> f.x,
     timesteps |-> f.timesteps,
     crossattn_emb |-> f.crossattn_emb,
     crossattn_mask |-> f.crossattn_mask,
     fps |-> f.fps,
     image_size |-> f.image_size,
     padding_mask |-> f.padding_mask,
     scalar_feature |-> f.scalar_feature,
     data_type |-> f.data_type,
     x_ctrl |-> o,
     condition_video_input_mask |-> f.condition_video_input_mask,
     latent_condition |-> f.latent_condition,
     latent_condition_sigma |-> f.latent_condition_sigma,
     view_indices_B_T |-> f.view_indices_B_T] @@ kw

\* GeneralDITMulticamEncoder.forward up to the bypass: record the inputs, pop the
\* hint, and with a None hint return the backbone's result
ForwardEntry ==
    /\ pc = "forward"
    /\ hint' = fargs.kwargs[fargs.hint_key]
    /\ kwargs' = Pop(fargs.kwargs, fargs.hint_key)
    /\ IF IsNone(hint')
       THEN /\ backbone_calls' = Append(backbone_calls, BypassArgs(fargs, kwargs'))
            /\ retval' = BackboneForward(BypassArgs(fargs, kwargs'))
            /\ pc' = "done"
       ELSE /\ pc' = IF cfg.hint_encoders THEN "encode_multi" ELSE "encode"
            /\ UNCHANGED fin
    /\ UNCHANGED <<inst, fields, call, fargs, guided_hints, prep, loop, err>>

\* the token grid [B, T, H, W] (H = 1) of the hint embedding, which tok holds
\* position-major: entry w of leading position b*T + t is tok[t*W + w][b]
BatchMajor(tok) ==
    LET T == Len(tok) \div HW
    IN [p \in 1..(Len(tok[1]) * T) |->
           [w \in 1..HW |-> tok[((p - 1) % T) * HW + w][(p - 1) \div T + 1]]]

\* encode_hint(hint) with the instance's current hint modules: the channel
\* check and padding, the hint embedding, the layout read from
\* self.blocks["block0"] (absent when the mask drops block 0), the hint encoder;
\* for an unknown layout the message of the intended ValueError reads
\* self.blocks[0], which raises KeyError
EncodeHint(c, tr, flds, h, ch, pm) ==
    IF ch > c.hint_channels THEN [err |-> "AssertionError"]
    ELSE IF LayerMaskOf(c.num_blocks, c.ncb, c.layer_mask)[1]
    THEN [err |-> "KeyError: 'block0'"]
    ELSE LET tok == PrepareHintEmbeddedSequence(c, flds.x_embedder2, flds.pos_embedder, h, pm)
             T == Len(tok) \div HW
             nb == Len(tok[1])
         IN CASE c.x_format = "THWBD" ->
                   IF c.sequence_parallel
                   THEN IF Len(tok) % TP # 0 THEN [err |-> "AssertionError"]
                        ELSE [kind |-> "tensor", err |-> "none", layout |-> "THWBD",
                              shape |-> <<Len(tok) \div TP, 1, 1, nb>>,
                              v |-> InputHintBlock(tr, flds.input_hint_block, Scatter(tok, c.rank))]
                   ELSE [kind |-> "tensor", err |-> "none", layout |-> "THWBD",
                         shape |-> <<T, 1, HW, nb>>,
                         v |-> InputHintBlock(tr, flds.input_hint_block, tok)]
              [] c.x_format = "BTHWD" ->
                   [kind |-> "tensor", err |-> "none", layout |-> "BTHWD",
                    shape |-> <<nb, T, 1, HW>>,
                    v |-> InputHintBlock(tr, flds.input_hint_block, BatchMajor(tok))]
              [] OTHER -> [err |-> "KeyError: 0"]

\* self.input_hint_block / pos_embedder / x_embedder2 = self.hint_encoders[s]...
SelectHintEncoder(flds, s) ==
    [flds EXCEPT !.input_hint_block = s + 1, !.pos_embedder = s + 1, !.x_embedder2 = s + 1]

\* one iteration of the loop over hint.shape[1] (multicontrol encoders)
EncodeHintMulti ==
    /\ pc = "encode_multi"
    /\ LET s == Len(guided_hints)
           g == EncodeHint(cfg, trained, fields', Chunk(hint.v, hint.n, s + 1), hint.ch,
                           fargs.padding_mask)
       IN /\ fields' = SelectHintEncoder(fields, s)
          /\ IF g.err # "none"
             THEN /\ Raise(g.err)
                  /\ UNCHANGED guided_hints
             ELSE /\ guided_hints' = Append(guided_hints, g)
                  /\ pc' = IF s + 1 < hint.n THEN "encode_multi" ELSE "prepare"
                  /\ err' = err
    /\ UNCHANGED <<inst, call, entry, prep, loop, fin>>

\* assert len(guided_hints) == 1 or not torch.is_grad_enabled()
MultiControlAllowed(n, grad) == n = 1 \/ ~grad

\* the single-encoder branch: encode the stacked hint, chunk it per source,
\* and refuse several sources under gradient tracking
EncodeHintChunk ==
    /\ pc = "encode"
    /\ LET g == EncodeHint(cfg, trained, fields, hint.v, hint.ch, fargs.padding_mask)
           n == Len(hint.v[1]) \div Len(fargs.x.v[1])
       IN IF g.err # "none"
          THEN /\ Raise(g.err)
               /\ UNCHANGED guided_hints
          ELSE /\ guided_hints' = [s \in 1..n |-> [g EXCEPT !.v = Chunk(g.v, n, s),
                                                              !.shape[4] = @ \div n]]
               /\ IF MultiControlAllowed(n, grad_enabled)
                  THEN pc' = "prepare" /\ err' = err
                  ELSE Raise("AssertionError")
    /\ UNCHANGED <<inst, fields, call, entry, prep, loop, fin>>

\* self.in_channels: in_channels + 1 with is_extend_model
InChannels(c) == IF c.is_extend_model THEN c.in_channels + 1 ELSE c.in_channels

\* channel reconciliation of x by data type, with the context-parallel split of
\* the condition mask
ReconcileChannels(c, f) ==
    CASE f.data_type = "VIDEO" ->
           IF IsNone(f.condition_video_input_mask)
           THEN [err |-> "none", x |-> f.x, cvim |-> None]
           ELSE LET m == IF c.cp_group THEN SplitInputsCp(f.condition_video_input_mask)
                         ELSE f.condition_video_input_mask
                IN [err |-> "none", x |-> CatChannel(f.x, m), cvim |-> m]
      [] f.data_type = "IMAGE" ->
           IF InChannels(c) < f.x.C
           THEN [err |-> "RuntimeError"]
           ELSE [err |-> "none", x |-> [f.x EXCEPT !.C = InChannels(c)],
                 cvim |-> f.condition_video_input_mask]
      [] OTHER ->
           IF f.x.C = InChannels(c)
           THEN [err |-> "none", x |-> f.x, cvim |-> f.condition_video_input_mask]
           ELSE [err |-> "AssertionError"]

\* the local crossattn_emb / crossattn_mask: the boolean [B, 1, 1, length] mask
\* (or None), and for THWBD the "M B D" embedding; `if crossattn_mask:` on a
\* mask of more than one element raises
CrossAttnLocals(c, f) ==
    IF c.use_cross_attn_mask /\ IsNone(f.crossattn_mask) THEN [err |-> "TypeError"]
    ELSE IF c.use_cross_attn_mask /\ c.x_format = "THWBD" THEN [err |-> "RuntimeError"]
    ELSE [err |-> "none",
          emb |-> IF c.x_format = "THWBD"
                  THEN [f.crossattn_emb EXCEPT !.layout = "M B D"]
                  ELSE f.crossattn_emb,
          mask |-> IF c.use_cross_attn_mask
                   THEN [f.crossattn_mask EXCEPT !.layout = "B 1 1 M bool"]
                   ELSE None]

\* values torch.rand can return, in percent
UniformDraws == {50, 75}

\* branch dropout in every training call, frozen backbone or not
UsesBranchDropoutWhenTraining(is_training, is_training_base_model) ==
    is_training

\* is_training and is_training_base_model
UsesBranchDropout(is_training, is_training_base_model) ==
    is_training /\ is_training_base_model

\* random_drop_control_blocks and is_training
UsesRandomLayers(random_drop, is_training) == random_drop /\ is_training

\* the resolution were the caller's value used as given, the sentinel included
ResolveLayersKeepingSentinel(random_drop, is_training, nlu, ncb, r) ==
    IF random_drop
    THEN IF is_training THEN r + 1 ELSE nlu
    ELSE ncb

\* the resolved num_layers_to_use; r is np.random.randint(num_control_blocks)
ResolveLayers(random_drop, is_training, nlu, ncb, r) ==
    IF random_drop
    THEN IF is_training THEN r + 1
         ELSE IF nlu = -1 THEN ncb ELSE nlu
    ELSE ncb

\* the per-source list made of control_weight
ControlWeightList(cw, n) ==
    IF cw.kind = "tensor"
    THEN IF cw.ndim = 0 THEN [s \in 1..n |-> [kind |-> "float", v |-> cw.v]]
         ELSE IF cw.ndim = 1 THEN [s \in 1..Len(cw.v) |-> [kind |-> "float", v |-> cw.v[s]]]
         ELSE [s \in 1..Len(cw.v) |-> [kind |-> "map", v |-> cw.v[s]]]
    ELSE [s \in 1..n |-> cw]

\* forward from the data-type check to x_before_blocks: channel reconciliation,
\* cross-attention locals, the per-sample gate, the layer gates, the weights
Prepare ==
    /\ pc = "prepare"
    /\ LET rx == ReconcileChannels(cfg, fargs)
           ca == CrossAttnLocals(cfg, fargs)
           ncb == IndexOfTrue(layer_mask)
           is_training == grad_enabled
           dropout == UsesBranchDropout(is_training, fargs.base_model.trainable)
           pre == IF rx.err # "none" THEN rx.err ELSE ca.err
       IN IF pre # "none"
          THEN /\ Raise(pre)
               /\ UNCHANGED <<prep, outs>>
          ELSE /\ x' = rx.x
               /\ cvim' = rx.cvim
               /\ crossattn' = ca
               /\ outs' = <<>>
               /\ \E u \in [1..B -> UniformDraws] :
                     /\ dropout \/ u = [k \in 1..B |-> 50]
                     /\ coin_flip' = IF dropout THEN CoinFlip(u, cfg.dropout_ctrl_branch)
                                     ELSE [k \in 1..B |-> 1]
                     /\ IF IsNone(ncb)
                        THEN /\ Raise("ValueError: True is not in list")
                             /\ draws' = [coin |-> IF dropout THEN B ELSE 0, layer |-> 0,
                                          u |-> IF dropout THEN u ELSE <<>>]
                             /\ UNCHANGED <<num_layers_to_use, control_gate_per_layer,
                                            control_weight>>
                        ELSE LET rl == UsesRandomLayers(cfg.random_drop_control_blocks, is_training)
                             IN /\ \E r \in 0..(ncb.v - 1) :
                                      /\ rl \/ r = 0
                                      /\ num_layers_to_use' =
                                            ResolveLayers(cfg.random_drop_control_blocks,
                                                          is_training,
                                                          fargs.num_layers_to_use, ncb.v, r)
                                /\ control_gate_per_layer' =
                                      ControlGatePerLayer(num_layers_to_use', ncb.v)
                                /\ control_weight' =
                                      ControlWeightList(fargs.control_weight, Len(guided_hints))
                                /\ draws' = [coin |-> IF dropout THEN B ELSE 0,
                                             layer |-> IF rl THEN 1 ELSE 0,
                                             u |-> IF dropout THEN u ELSE <<>>]
                                /\ pc' = "source"
                                /\ err' = err
    /\ i' = 0
    /\ UNCHANGED <<inst, fields, call, entry, guided_hints, idx, hidden, guided_hint,
                   emb, hint_vals, feats, resampled, fin>>

\* the encoder whose blocks, zero_blocks, t_embedder and affline_norm source s uses
SourceEncoder(c, s) == IF c.hint_encoders THEN s + 1 ELSE 0

\* self.x_embedder / self.extra_pos_embedder = self.hint_encoders[s]...
SelectEmbedders(c, flds, s) ==
    IF c.hint_encoders
    THEN [flds EXCEPT !.x_embedder = s + 1, !.extra_pos_embedder = s + 1]
    ELSE flds

\* the head of the loop over guided_hints: restart from x_before_blocks, select
\* the source's modules, embed x, and scatter under sequence parallelism
SourceStart ==
    /\ pc = "source"
    /\ fields' = SelectEmbedders(cfg, fields, i)
    /\ LET e == PrepareEmbeddedSequence(fields', x)
       IN IF ~IsNone(fargs.scalar_feature)
          THEN /\ Raise("NotImplementedError")
               /\ UNCHANGED <<hidden, emb, guided_hint, idx>>
          ELSE IF cfg.sequence_parallel /\ cfg.block_config # "FA-CA-MLP"
          THEN /\ Raise("AssertionError")
               /\ UNCHANGED <<hidden, emb, guided_hint, idx>>
          ELSE IF cfg.sequence_parallel /\ Len(e.tokens) % TP # 0
          THEN /\ Raise("AssertionError")
               /\ UNCHANGED <<hidden, emb, guided_hint, idx>>
          ELSE /\ hidden' = IF cfg.sequence_parallel THEN Scatter(e.tokens, cfg.rank)
                            ELSE e.tokens
               /\ emb' = [rope |-> e.rope,
                          extra |-> IF cfg.sequence_parallel THEN Scatter(e.extra, cfg.rank)
                                    ELSE e.extra]
               /\ guided_hint' = guided_hints[i + 1]
               /\ idx' = 0
               /\ pc' = "block"
               /\ err' = err
    /\ UNCHANGED <<inst, call, entry, guided_hints, prep, i, outs, hint_vals, feats,
                   resampled, fin>>

\* the shape of x after rearrange "B T H W D -> T H W B D" (H = 1) and, under
\* sequence parallelism, view(T*H*W, 1, 1, B, D) and scatter
XShape(c, T) ==
    IF c.sequence_parallel THEN <<(T * HW) \div TP, 1, 1, B>> ELSE <<T, 1, HW, B>>

\* the shape of the hidden state once the guided hint g has been added
InjectedShape(c, T, g) == BroadcastShape(XShape(c, T), g.shape)

\* the injection were the guided hint added twice
AddGuidedHintTwice(xh, sh, g) ==
    IF Broadcastable(sh, g.shape)
    THEN [err |-> "none", v |-> BAdd(BAdd(xh, sh, g.v, g.shape), BroadcastShape(sh, g.shape),
                                     g.v, g.shape)]
    ELSE [err |-> "RuntimeError"]

\* x + guided_hint for x of shape sh: torch broadcasts the two, whatever the
\* layout of the hint, and raises when the shapes do not combine
AddGuidedHint(xh, sh, g) ==
    IF Broadcastable(sh, g.shape)
    THEN [err |-> "none", v |-> BAdd(xh, sh, g.v, g.shape)]
    ELSE [err |-> "RuntimeError"]

\* coin_flip as a factor of a tensor of shape sh: [1, 1, 1, B, 1] for THWBD,
\* [B, 1, 1, 1, 1] for BTHWD
CoinTensor(c, coin, sh) ==
    [p \in 1..Positions(sh) |->
        [k \in 1..sh[4] |->
            IF c.x_format = "BTHWD" THEN coin[IndexOf(sh, p, k)[1] + 1] ELSE coin[k]]]

\* block(x, ..., extra_per_block_pos_emb=extra) on a hidden state of shape sh:
\* the extra positional embedding, of the shape of x, broadcasts to it
BlockOutput(c, T, e, name, h, sh, em) ==
    Block(e, name, h, em.rope, BroadcastTo(em.extra, XShape(c, T), sh))

\* the contribution were the block output used without its zero projection
HintValScalarUnprojected(zp, xh, w, coin, gate) ==
    TScale(TMulMap(TScale(xh, w), coin), BoolFactor(gate))

\* zero_blocks[name](x) * control_weight[i] * coin_flip * gate, coin being
\* coin_flip broadcast to the shape of x
HintValScalar(zp, xh, w, coin, gate) ==
    TScale(TMulMap(TScale(ZeroBlock(zp, xh), w), coin), BoolFactor(gate))

\* the weight map of the source brought to the token grid: resampled when its
\* shape differs, flattened over (T, H, W), scattered under sequence parallelism
PrepareWeightMap(c, wm, T) ==
    IF c.x_format # "THWBD" THEN [err |-> "NotImplementedError"]
    ELSE IF NeedsResample(wm, T, HW) /\ ~ResampleAccepts(wm, T)
    THEN [err |-> "AssertionError"]
    ELSE LET r == IF NeedsResample(wm, T, HW) THEN ResampleWeightMap(wm, T, HW) ELSE wm
             flat == FlattenWeightMap(r)
         IN IF c.sequence_parallel
            THEN [err |-> "none", map |-> r, v |-> Scatter(flat, c.rank)]
            ELSE IF HW = 1
            THEN [err |-> "none", map |-> r, v |-> flat]
            ELSE [err |-> "RuntimeError", map |-> r]

\* control_feat * weight_map * coin_flip * gate
HintValMap(zp, xh, wv, coin, gate) ==
    TScale(TMulMap(TMulMap(ZeroBlock(zp, xh), wv), coin), BoolFactor(gate))

\* outs[name] = hint_val, or outs[name] += hint_val
Accumulate(o, name, hv) ==
    IF name \in DOMAIN o THEN [o EXCEPT ![name] = TAdd(@, hv)]
    ELSE o @@ (name :> hv)

\* one iteration of the loop over blocks.items(): run the block, add the hint
\* once, read the gate of the iteration (control_gate_per_layer[idx], absent
\* when the mask leaves more blocks than there are gates), compute the gated
\* contribution and accumulate it
BlockStep ==
    /\ pc = "block"
    /\ LET names == BlockNames(layer_mask, 0)
           name == names[idx + 1]
           e == SourceEncoder(cfg, i)
           T == fargs.x.T
           sh == IF IsNone(guided_hint) THEN InjectedShape(cfg, T, guided_hints[i + 1])
                 ELSE XShape(cfg, T)
           xb == BlockOutput(cfg, T, e, name, hidden, sh, emb)
           inj == IF IsNone(guided_hint) THEN [err |-> "none", v |-> xb]
                  ELSE AddGuidedHint(xb, sh, guided_hint)
           coin == CoinTensor(cfg, coin_flip, InjectedShape(cfg, T, guided_hints[i + 1]))
           w == control_weight[i + 1]
           zp == ZeroBlockParams(trained, e, name)
           gate == control_gate_per_layer[idx + 1]
           pw == IF w.kind = "map" THEN PrepareWeightMap(cfg, w.v, fargs.x.T)
                 ELSE [err |-> "none"]
       IN IF inj.err # "none"
          THEN /\ Raise(inj.err)
               /\ UNCHANGED <<i, idx, hidden, guided_hint, outs, hint_vals, feats, resampled>>
          ELSE IF idx >= Len(control_gate_per_layer)
          THEN /\ hidden' = inj.v
               /\ guided_hint' = None
               /\ Raise("IndexError")
               /\ UNCHANGED <<i, idx, outs, hint_vals, feats, resampled>>
          ELSE /\ hidden' = inj.v
               /\ guided_hint' = None
               /\ resampled' = IF w.kind = "map" /\ "map" \in DOMAIN pw
                               THEN [kind |-> "resample", in |-> w.v, out |-> pw.map, T |-> fargs.x.T]
                               ELSE resampled
               /\ IF pw.err # "none"
                  THEN /\ Raise(pw.err)
                       /\ UNCHANGED <<i, idx, outs, hint_vals, feats>>
                  ELSE LET hv == IF w.kind = "map"
                                 THEN HintValMap(zp, inj.v, pw.v, coin, gate)
                                 ELSE HintValScalar(zp, inj.v, w.v, coin, gate)
                       IN /\ outs' = Accumulate(outs, name, hv)
                          /\ hint_vals' = hint_vals @@ (<<i, name>> :> hv)
                          /\ feats' = feats @@ (<<i, name>> :> inj.v)
                          /\ err' = err
                          /\ IF idx + 1 < Len(names)
                             THEN idx' = idx + 1 /\ i' = i /\ pc' = "block"
                             ELSE IF i + 1 < Len(guided_hints)
                             THEN idx' = idx /\ i' = i + 1 /\ pc' = "source"
                             ELSE idx' = idx /\ i' = i /\ pc' = "delegate"
    /\ UNCHANGED <<inst, fields, call, entry, guided_hints, x, cvim, crossattn, coin_flip,
                   num_layers_to_use, control_gate_per_layer, control_weight, draws,
                   emb, fin>>

\* the closing base_model.net.forward(..., x_ctrl=outs, ...) and the return
Delegate ==
    /\ pc = "delegate"
    /\ LET a == DelegateArgs(fargs, kwargs, x, crossattn, cvim, outs)
       IN /\ backbone_calls' = Append(backbone_calls, a)
          /\ retval' = BackboneForward(a)
    /\ pc' = "done"
    /\ UNCHANGED <<inst, fields, call, entry, guided_hints, prep, loop, err>>

Next ==
    \/ Construct
    \/ Train
    \/ BuildHintPatchEmbed
    \/ Call
    \/ ExtendForward
    \/ ForwardEntry
    \/ EncodeHintMulti
    \/ EncodeHintChunk
    \/ Prepare
    \/ SourceStart
    \/ BlockStep
    \/ Delegate

Spec == Init /\ [][Next]_vars

\* ================================================================ claims
\* the named parameters forward hands to the backbone
BackboneParams ==
    {"x", "timesteps", "crossattn_emb", "crossattn_mask", "fps", "image_size",
     "padding_mask", "scalar_feature", "data_type", "condition_video_input_mask",
     "latent_condition", "latent_condition_sigma", "view_indices_B_T"}

\* the instance fields refer to the instance's own modules: those __init__
\* built, or the hint patch embedding rebuilt before the call
OwnFields ==
    {NoFields, [NoFields EXCEPT !.x_embedder2 = RebuiltEmbedder]}

\* the call has returned from the bypass branch
BypassReturned == pc = "done" /\ ~IsNone(fargs) /\ IsNone(hint)
\* the call has returned after a control pass
ControlReturned == pc = "done" /\ ~IsNone(fargs) /\ ~IsNone(hint)

\* C1: with a None hint under hint_key, GeneralDITMulticamEncoder.forward calls
\* the backbone exactly once, with every named argument and every remaining
\* keyword argument as its caller passed them and without x_ctrl, runs no hint
\* encoding, gate or control block, and returns the backbone's result.
C1_BypassForwardsArguments ==
    BypassReturned =>
        /\ Len(backbone_calls) = 1
        /\ LET a == backbone_calls[1]
               rest == DOMAIN fargs.kwargs \ {fargs.hint_key}
           IN /\ DOMAIN a = BackboneParams \cup rest
              /\ \A k \in BackboneParams : a[k] = fargs[k]
              /\ \A k \in rest : a[k] = fargs.kwargs[k]
              /\ retval = BackboneForward(a)
        /\ guided_hints = <<>>
        /\ hint_vals = <<>>
        /\ outs = <<>>
        /\ draws = NoDraws
        /\ fields \in OwnFields

\* a bypass call of the base class has returned, its frame_repeat passed on
C1_Witness ==
    /\ BypassReturned
    /\ Len(backbone_calls) = 1
    /\ cfg.cls = BaseClass
    /\ "frame_repeat" \in DOMAIN backbone_calls[1]

\* the control blocks of the instance, by name
ControlBlocks == {n \in 0..(Len(layer_mask) - 1) : ~layer_mask[n + 1]}

\* C2: with a hint, the backbone is called at most once and only after every
\* source has passed every control block; that call carries the x,
\* crossattn_emb, crossattn_mask and condition_video_input_mask the caller
\* passed, not the locals that replaced them, and x_ctrl = outs; the call's
\* result is what forward returns.
C2_DelegationUsesOriginalInputs ==
    /\ Len(backbone_calls) <= 1
    /\ (~IsNone(hint) /\ Len(backbone_calls) = 1) =>
          /\ pc = "done"
          /\ DOMAIN hint_vals =
                {<<s, n>> : s \in 0..(Len(guided_hints) - 1), n \in ControlBlocks}
          /\ LET a == backbone_calls[1]
             IN /\ a.x = fargs.x
                /\ a.crossattn_emb = fargs.crossattn_emb
                /\ a.crossattn_mask = fargs.crossattn_mask
                /\ a.condition_video_input_mask = fargs.condition_video_input_mask
                /\ a.x_ctrl = outs
                /\ retval = BackboneForward(a)
    /\ ControlReturned => Len(backbone_calls) = 1

\* a control pass over two sources has returned after forward replaced x, the
\* embedding layout and the (context-parallel split) condition mask locally
C2_Witness ==
    /\ ControlReturned
    /\ Len(guided_hints) = 2
    /\ x # fargs.x
    /\ crossattn.emb # fargs.crossattn_emb
    /\ cvim # fargs.condition_video_input_mask

\* C3: VideoExtendGeneralDITMulticamEncoder.forward with VIDEO data and a None
\* hint hands the backbone the x and the condition_video_input_mask its caller
\* passed.
C3_ExtendBypassForwardsArguments ==
    (BypassReturned /\ cfg.cls = ExtendClass /\ args.data_type = "VIDEO") =>
        /\ backbone_calls[1].x = args.x
        /\ backbone_calls[1].condition_video_input_mask = args.condition_video_input_mask

\* C4: while the zero-initialised projections keep their initial value, every
\* contribution and every entry of outs is the zero tensor, whatever the hint,
\* the weight form, the gate and the number of sources, and forward returns
\* what the backbone returns without x_ctrl.
C4_ZeroInitIsNoOp ==
    ~trained =>
        /\ \A k \in DOMAIN hint_vals : TZero(hint_vals[k])
        /\ \A n \in DOMAIN outs : TZero(outs[n])
        /\ ControlReturned =>
              LET a == backbone_calls[1]
              IN retval = BackboneForward([k \in DOMAIN a \ {"x_ctrl"} |-> a[k]])

\* an untrained instance has returned from a two-source control pass whose
\* hidden states were not zero
C4_Witness ==
    /\ ~trained
    /\ ControlReturned
    /\ Len(guided_hints) = 2
    /\ DOMAIN outs = ControlBlocks
    /\ \E k \in DOMAIN feats : ~TZero(feats[k])

\* the contribution of source s at block n with its gate left open
SourceCoin(s) ==
    CoinTensor(cfg, coin_flip, InjectedShape(cfg, fargs.x.T, guided_hints[s + 1]))

UngatedContribution(s, n) ==
    LET zp == ZeroBlockParams(trained, SourceEncoder(cfg, s), n)
        w == control_weight[s + 1]
    IN IF w.kind = "map"
       THEN HintValMap(zp, feats[<<s, n>>], PrepareWeightMap(cfg, w.v, fargs.x.T).v,
                       SourceCoin(s), TRUE)
       ELSE HintValScalar(zp, feats[<<s, n>>], w.v, SourceCoin(s), TRUE)

\* C5: for the resolved num_layers_to_use = k, the contribution of every source
\* at a control block of index j >= k is zero whatever the projection, weight
\* and per-sample gate, and at a block of index j < k it is the ungated
\* contribution, in which k does not occur.
C5_LayerGating ==
    \A key \in DOMAIN hint_vals :
        IF key[2] < num_layers_to_use
        THEN hint_vals[key] = UngatedContribution(key[1], key[2])
        ELSE TZero(hint_vals[key])

\* a trained instance gated a block off whose projection was not zero, and let
\* a non-zero contribution of a lower block through
C5_Witness ==
    /\ trained
    /\ \E key \in DOMAIN hint_vals :
          /\ key[2] >= num_layers_to_use
          /\ ~TZero(UngatedContribution(key[1], key[2]))
    /\ \E key \in DOMAIN hint_vals :
          /\ key[2] < num_layers_to_use
          /\ ~TZero(hint_vals[key])

\* the gate of every sample is 1 unless the call trains the backbone too, and is
\* then 1 exactly for the samples whose uniform draw exceeds dropout_ctrl_branch
PerSampleGate ==
    /\ ~(grad_enabled /\ fargs.base_model.trainable) =>
          \A k \in 1..Len(coin_flip) : coin_flip[k] = 1
    /\ (grad_enabled /\ fargs.base_model.trainable) =>
          /\ Len(draws.u) = Len(coin_flip)
          /\ \A k \in 1..Len(coin_flip) :
                coin_flip[k] = IF draws.u[k] > cfg.dropout_ctrl_branch THEN 1 ELSE 0

\* C6 as stated: the gate is 1 outside training or with a frozen backbone, no
\* random value at all is drawn unless the call is training and the backbone is
\* trainable, and then each sample's gate follows its own uniform draw.
C6_NoRandomnessUnlessTrainingBackbone ==
    ~IsNone(fargs) =>
        /\ PerSampleGate
        /\ (draws.coin + draws.layer > 0) =>
              (grad_enabled /\ fargs.base_model.trainable)

\* C6 amended: the gate is as stated, no random value is drawn outside training
\* mode, the uniform draws are made only when the backbone is trainable too, and
\* the one other draw is the layer count, made when training with
\* random_drop_control_blocks whether or not the backbone is trainable.
C6_RandomnessOnlyInTraining ==
    ~IsNone(fargs) =>
        /\ PerSampleGate
        /\ draws.coin > 0 => (grad_enabled /\ fargs.base_model.trainable)
        /\ draws.layer > 0 => (grad_enabled /\ cfg.random_drop_control_blocks)
        /\ IsNone(hint) => draws = NoDraws

\* a training call on a trainable backbone drew the layer count, dropped the
\* sample whose uniform draw equalled dropout_ctrl_branch and kept the other
C6_Witness ==
    /\ pc = "done"
    /\ grad_enabled
    /\ fargs.base_model.trainable
    /\ coin_flip = <<0, 1>>
    /\ draws.u[1] = cfg.dropout_ctrl_branch
    /\ draws.layer = 1

\* the frame count the resampling assertion asks of a map for T target frames
DenseFrames(T) == 8 * (T - 1) + 1

\* a weight map of the right dense frame count, when resampled, yields T frames:
\* frame 1 from input frame 1, frame k >= 2 from the window of 8 input frames
\* 8(k-2)+2 .. 8(k-1)+1 (its middle pair averaged), the windows covering every
\* input frame once
ResampledExactly ==
    (~IsNone(resampled) /\ resampled.in.T = DenseFrames(resampled.T)
                        /\ resampled.in # resampled.out) =>
        LET Tw == resampled.in.T
            T == resampled.T
            f == resampled.in.frames
            g == resampled.out.frames
        IN /\ Len(g) = T
           /\ resampled.out.T = T
           /\ g[1] = f[1]
           /\ WindowBounds(1, Tw) = <<1, 1>>
           /\ \A k \in 2..T :
                 /\ WindowBounds(k, Tw) = <<8 * (k - 2) + 2, 8 * (k - 1) + 1>>
                 /\ g[k] = (f[8 * (k - 2) + 5] + f[8 * (k - 2) + 6]) \div 2
           /\ \A n \in 1..Tw :
                 Cardinality({k \in 1..T : WindowBounds(k, Tw)[1] <= n
                                           /\ n <= WindowBounds(k, Tw)[2]}) = 1

\* the sources whose weight is a spatio-temporal map
MapSources == {s \in 0..(Len(control_weight) - 1) : control_weight[s + 1].kind = "map"}

\* no contribution was computed with the map of source s, and no delegation
RejectedMap(s) ==
    /\ \A key \in DOMAIN hint_vals : key[1] # s
    /\ pc \notin {"delegate", "done"}

\* C7 as stated: a map of 8(T-1)+1 frames is resampled to exactly T frames by
\* the stride-8 windows, and a map of any other frame count makes the call fail.
C7_OtherFrameCountsFail ==
    /\ ResampledExactly
    /\ \A s \in MapSources :
          control_weight[s + 1].v.T # DenseFrames(fargs.x.T) => RejectedMap(s)

\* C7 amended: a map of 8(T-1)+1 frames is resampled to exactly T frames by the
\* stride-8 windows; a map that already has T frames at the target spatial
\* resolution is used unchanged; a map of any other frame count makes the call
\* fail.
C7_ResamplingExactness ==
    /\ ResampledExactly
    /\ \A s \in MapSources :
          LET wm == control_weight[s + 1].v
          IN (wm.T # DenseFrames(fargs.x.T) /\ ~(wm.T = fargs.x.T /\ wm.S = HW))
                => RejectedMap(s)
    /\ (~IsNone(resampled) /\ resampled.in.T = resampled.T /\ resampled.in.S = HW)
          => resampled.out = resampled.in

\* a map of 9 frames with distinct values was resampled for 2 target frames and
\* its contribution computed
C7_Witness ==
    /\ ~IsNone(resampled)
    /\ resampled.T = 2
    /\ resampled.in.T = 9
    /\ resampled.out.T = 2
    /\ resampled.in.frames[5] # resampled.in.frames[6]
    /\ hint_vals # <<>>

\* C8: every 0 < num_control_blocks <= num_blocks, num_blocks included, is
\* accepted with num_control_blocks False mask entries, then True ones, and one
\* ZeroBlock per name block0 .. block{num_control_blocks-1}; a forward call
\* with a hint finds num_control_blocks as the index of the first True entry
\* and goes on with that many gates; any other num_control_blocks is rejected.
C8_AcceptedBlockCountsProceed ==
    (pc # "new" /\ ~IsNone(cfg.ncb)) =>
        IF 0 < cfg.ncb.v /\ cfg.ncb.v <= cfg.num_blocks
        THEN /\ pc # "rejected"
             /\ layer_mask = [k \in 1..cfg.num_blocks |-> k > cfg.ncb.v]
             /\ zero_blocks = 0..(cfg.ncb.v - 1)
             /\ err # "ValueError: True is not in list"
             /\ (~IsNone(hint) /\ pc \in {"source", "block", "delegate", "done"}) =>
                   Len(control_gate_per_layer) = cfg.ncb.v
        ELSE pc = "rejected"

\* C9: a call that carries more than one control source while gradient
\* tracking is enabled fails and never reaches the backbone, with per-source
\* hint encoders as with sources stacked on the batch axis.
C9_MultiSourceTrainingFails ==
    (grad_enabled /\ ~IsNone(hint) /\ hint.n > 1) =>
        /\ backbone_calls = <<>>
        /\ pc # "done"

\* the instance fields during a call that carries source s alone
AloneFields(s) ==
    IF cfg.hint_encoders
    THEN [input_hint_block |-> s + 1, pos_embedder |-> s + 1, x_embedder2 |-> s + 1,
          x_embedder |-> s + 1, extra_pos_embedder |-> s + 1]
    ELSE fields

\* the hidden state after block n of a pass over source s alone
RECURSIVE AloneHidden(_, _)
AloneHidden(s, n) ==
    LET pe == PrepareEmbeddedSequence(AloneFields(s), x)
        tok == IF cfg.sequence_parallel THEN Scatter(pe.tokens, cfg.rank) ELSE pe.tokens
        extra == IF cfg.sequence_parallel THEN Scatter(pe.extra, cfg.rank) ELSE pe.extra
        prev == IF n = 0 THEN tok ELSE AloneHidden(s, n - 1)
        sx == XShape(cfg, fargs.x.T)
        g == guided_hints[s + 1]
        xb == Block(SourceEncoder(cfg, s), n, prev, pe.rope,
                    IF n = 0 THEN extra ELSE BroadcastTo(extra, sx, BroadcastShape(sx, g.shape)))
    IN IF n = 0 THEN BAdd(xb, sx, g.v, g.shape) ELSE xb

\* the contribution to block n of a pass over source s alone
AloneContribution(s, n) ==
    LET zp == ZeroBlockParams(trained, SourceEncoder(cfg, s), n)
        w == control_weight[s + 1]
        gate == control_gate_per_layer[n + 1]
    IN IF w.kind = "map"
       THEN HintValMap(zp, AloneHidden(s, n), PrepareWeightMap(cfg, w.v, fargs.x.T).v,
                       SourceCoin(s), gate)
       ELSE HintValScalar(zp, AloneHidden(s, n), w.v, SourceCoin(s), gate)

\* C10: after a call over two control sources, outs holds for every control
\* block the sum of what source 0 alone and source 1 alone contribute to it:
\* no source's pass is affected by the other.
C10_TwoSourcesAdd ==
    (ControlReturned /\ Len(guided_hints) = 2) =>
        \A n \in DOMAIN outs :
            outs[n] = TAdd(AloneContribution(0, n), AloneContribution(1, n))

\* the same sum for sources stacked on the batch axis and split by chunking
TwoChunkedSourcesAdd == ~cfg.hint_encoders => C10_TwoSourcesAdd

\* the call has resolved its layer count
LayersResolved == ~IsNone(hint) /\ pc \in {"source", "block", "delegate", "done"}

\* C11: the layer count of a call is num_control_blocks when
\* random_drop_control_blocks is disabled, whatever the caller passed; when
\* enabled and training it is the one integer drawn for the call, in
\* 1..num_control_blocks; when enabled and not training it is the caller's
\* num_layers_to_use, with -1 standing for num_control_blocks. It is resolved
\* once: every source of the call is gated by the same count.
C11_LayerCountResolution ==
    LayersResolved =>
        LET ncb == IndexOfTrue(layer_mask).v
            nlu == fargs.num_layers_to_use
        IN /\ ~cfg.random_drop_control_blocks => num_layers_to_use = ncb
           /\ (cfg.random_drop_control_blocks /\ grad_enabled) =>
                 /\ 1 <= num_layers_to_use /\ num_layers_to_use <= ncb
                 /\ draws.layer = 1
           /\ (cfg.random_drop_control_blocks /\ ~grad_enabled) =>
                 /\ num_layers_to_use = IF nlu = -1 THEN ncb ELSE nlu
                 /\ draws.layer = 0
           /\ control_gate_per_layer = ControlGatePerLayer(num_layers_to_use, ncb)
           /\ \A key \in DOMAIN hint_vals :
                 key[2] >= num_layers_to_use => TZero(hint_vals[key])

\* an inference call over two sources with random_drop_control_blocks used the
\* caller's count of 1 for both sources, below num_control_blocks
C11_Witness ==
    /\ pc = "done"
    /\ Len(guided_hints) = 2
    /\ cfg.random_drop_control_blocks
    /\ ~grad_enabled
    /\ fargs.num_layers_to_use = 1
    /\ num_layers_to_use = 1
    /\ IndexOfTrue(layer_mask).v > 1
    /\ \A s \in {0, 1} : <<s, 1>> \in DOMAIN hint_vals

\* the per-source injection state: the hint of source i awaits block 0, and is
\* gone (Injected) from block 1 on
InjectionState ==
    pc = "block" =>
        /\ idx = 0 => guided_hint = guided_hints[i + 1]
        /\ idx >= 1 => IsNone(guided_hint)

\* a step of the block loop that computed a contribution: the block run is that
\* of index idx on the current hidden state, the hint of source i (and no other)
\* is added to its output at idx = 0 and nothing is added at idx >= 1, and the
\* contribution of <<i, idx>> is computed from the hidden state after that
BlockStepInjectsOnce ==
    (pc = "block" /\ hint_vals' # hint_vals) =>
        LET name == BlockNames(layer_mask, 0)[idx + 1]
            e == SourceEncoder(cfg, i)
            sx == XShape(cfg, fargs.x.T)
            g == guided_hints[i + 1]
            xb == Block(e, name, hidden, emb.rope,
                        IF idx = 0 THEN emb.extra
                        ELSE BroadcastTo(emb.extra, sx, BroadcastShape(sx, g.shape)))
            w == control_weight[i + 1]
            zp == ZeroBlockParams(trained, e, name)
            gate == control_gate_per_layer[idx + 1]
        IN /\ name = idx
           /\ hidden' = IF idx = 0 THEN BAdd(xb, sx, g.v, g.shape) ELSE xb
           /\ IsNone(guided_hint')
           /\ DOMAIN hint_vals' = DOMAIN hint_vals \cup {<<i, idx>>}
           /\ <<i, idx>> \notin DOMAIN hint_vals
           /\ \A n \in 0..(idx - 1) : <<i, n>> \in DOMAIN hint_vals
           /\ hint_vals'[<<i, idx>>] =
                 IF w.kind = "map"
                 THEN HintValMap(zp, hidden', PrepareWeightMap(cfg, w.v, fargs.x.T).v,
                                 SourceCoin(i), gate)
                 ELSE HintValScalar(zp, hidden', w.v, SourceCoin(i), gate)
           /\ (pc' = "block" => (i' = i /\ idx' = idx + 1))
           /\ (pc' = "source" => i' = i + 1)

\* C12: for each source the control blocks run in ascending index order, the
\* source's guided hint is added exactly once, to block 0's output and before
\* block 0's contribution is computed, never after a later block and never
\* during another source's pass.
C12_HintInjectedOnceAtBlockZero ==
    [](InjectionState) /\ [][BlockStepInjectsOnce]_vars

\* the second source of a trained instance is past block 0: its own non-zero
\* hint, different from the first source's, has been added and is gone
C12_Witness ==
    /\ pc = "block"
    /\ i = 1
    /\ idx = 1
    /\ trained
    /\ IsNone(guided_hint)
    /\ ~TZero(guided_hints[2].v)
    /\ guided_hints[1].v # guided_hints[2].v
    /\ feats[<<1, 0>>] = hidden

\* C13: a forward call over control sources leaves the instance's
\* input_hint_block, pos_embedder, x_embedder2, x_embedder and
\* extra_pos_embedder referring to the objects they referred to before it.
C13_SharedFieldsUnchanged ==
    ControlReturned => fields \in OwnFields

\* the token positions (of the T*H*W flattened ones) held by the worker
ShardPositions ==
    LET n == (fargs.x.T * HW) \div TP
    IN (cfg.rank * n + 1)..((cfg.rank + 1) * n)

\* the part of a flattened tensor t at the worker's positions, in order
ShardOf(t) ==
    LET n == (fargs.x.T * HW) \div TP
    IN [p \in 1..n |-> t[cfg.rank * n + p]]

\* the guided hint of source s over all token positions
FullGuidedHint(s) ==
    IF cfg.hint_encoders
    THEN InputHintBlock(trained, s + 1,
            PrepareHintEmbeddedSequence(cfg, s + 1, s + 1, Chunk(hint.v, hint.n, s + 1),
                                        fargs.padding_mask))
    ELSE Chunk(InputHintBlock(trained, fields.input_hint_block,
                   PrepareHintEmbeddedSequence(cfg, fields.x_embedder2, fields.pos_embedder,
                                               hint.v, fargs.padding_mask)),
               hint.n, s + 1)

\* on the worker, the hint about to be added, the hidden state, the extra
\* positional embedding and the weight map of the source are the parts of
\* their flattened tensors at the same token positions
ShardsAligned ==
    (pc = "block" /\ idx = 0 /\ cfg.sequence_parallel) =>
        LET pe == PrepareEmbeddedSequence(fields, x)
            w == control_weight[i + 1]
            pw == PrepareWeightMap(cfg, w.v, fargs.x.T)
        IN /\ Len(hidden) = Cardinality(ShardPositions)
           /\ hidden = ShardOf(pe.tokens)
           /\ emb.extra = ShardOf(pe.extra)
           /\ Len(guided_hint.v) = Len(hidden)
           /\ guided_hint.v = ShardOf(FullGuidedHint(i))
           /\ (w.kind = "map" /\ pw.err = "none") =>
                 /\ Len(pw.v) = Len(hidden)
                 /\ pw.v = ShardOf(FlattenWeightMap(pw.map))

\* C14: under sequence-parallel execution, for both recognized token layouts,
\* the hint tokens, the primary tokens, the extra positional embedding and a
\* weight map are flattened over (T, H, W) in the same order and partitioned
\* alike, so the worker's hint shard and weight shard cover exactly the token
\* positions of its hidden-state shard.
C14_ShardsAlignedInBothLayouts ==
    cfg.x_format \in {"THWBD", "BTHWD"} => ShardsAligned

\* the same alignment for the time-major layout alone
TimeMajorShardsAligned == cfg.x_format = "THWBD" => ShardsAligned
====
